---- MODULE Spec2Model ----
(***************************************************************************)
(* Model of the Oracle dialect of the SQL query builder                    *)
(* (packages/cubejs-schema-compiler/src/adapter/OracleQuery.ts).           *)
(*                                                                         *)
(* The specification Spec covers pagination: the version override read    *)
(* from the environment, the resolution of the row limit, the native       *)
(* OFFSET/FETCH clause, the ROWNUM wrapping and buildSqlAndParams.  The    *)
(* specification SpecMethods covers the methods of the dialect invoked on  *)
(* their own: interval arithmetic, truncation to a granularity, the GROUP  *)
(* BY clause and the aliases of derived tables.                            *)
(*                                                                         *)
(* JavaScript values are records [t, n, s]: t is the type tag, n the       *)
(* integer of a number, s the characters of a string.  SQL text is a       *)
(* sequence of tokens: the literal pieces of the template strings of the   *)
(* source and the values interpolated between them.                        *)
(***************************************************************************)
EXTENDS Integers, Sequences, FiniteSets, TLC

(***************************************************************************)
(* Bounds of the model.                                                    *)
(***************************************************************************)
\* numbers given as limit or offset range over 0 .. MaxNum
MaxNum == 3
\* the unpaginated result has at most MaxRows rows
MaxRows == 7

(***************************************************************************)
(* JavaScript values.                                                      *)
(***************************************************************************)
Undefined == [t |-> "undefined", n |-> 0, s |-> <<>>]

Null == [t |-> "null", n |-> 0, s |-> <<>>]

NaN == [t |-> "NaN", n |-> 0, s |-> <<>>]

Num(i) == [t |-> "number", n |-> i, s |-> <<>>]

Str(cs) == [t |-> "string", n |-> 0, s |-> cs]

\* an object or an array; s lists its elements
Obj(elems) == [t |-> "object", n |-> 0, s |-> elems]

\* ToBoolean, as applied by `if (x)`, `x ? a : b`, `x || y` and `!x`
Truthy(x) ==
    CASE x.t = "number" -> x.n # 0
      [] x.t = "string" -> x.s # <<>>
      [] x.t = "object" -> TRUE
      [] OTHER -> FALSE

DigitChars == <<"0", "1", "2", "3", "4", "5", "6", "7", "8", "9">>

IsDigit(c) == \E i \in 1..10 : DigitChars[i] = c

DigitVal(c) == (CHOOSE i \in 1..10 : DigitChars[i] = c) - 1

RECURSIVE SkipWhitespace(_)
SkipWhitespace(cs) ==
    IF cs # <<>> /\ Head(cs) = " " THEN SkipWhitespace(Tail(cs)) ELSE cs

RECURSIVE DigitsValue(_, _)
DigitsValue(cs, acc) ==
    IF cs = <<>> \/ ~IsDigit(Head(cs))
    THEN acc
    ELSE DigitsValue(Tail(cs), acc * 10 + DigitVal(Head(cs)))

\* parseInt(string, 10): leading white space, an optional sign, then the
\* longest prefix of decimal digits; NaN when there is no digit
ParseIntChars(cs) ==
    LET t == SkipWhitespace(cs)
        signed == t # <<>> /\ Head(t) \in {"+", "-"}
        neg == t # <<>> /\ Head(t) = "-"
        u == IF signed THEN Tail(t) ELSE t
    IN  IF u = <<>> \/ ~IsDigit(Head(u))
        THEN NaN
        ELSE Num(IF neg THEN 0 - DigitsValue(u, 0) ELSE DigitsValue(u, 0))

\* parseInt(x, 10) of any value: x is converted to a string first, so an
\* integer comes back unchanged and undefined, null and NaN give NaN
parseInt(x) ==
    CASE x.t = "string" -> ParseIntChars(x.s)
      [] x.t = "number" -> Num(x.n)
      [] OTHER -> NaN

\* Number.isFinite
IsFinite(x) == x.t = "number"

\* a + b on two numbers
Plus(a, b) == IF a.t = "number" /\ b.t = "number" THEN Num(a.n + b.n) ELSE NaN

\* a === 0
IsZero(a) == a.t = "number" /\ a.n = 0

RECURSIVE Split(_, _)
\* String.prototype.split(sep) for a one-character separator
Split(cs, sep) ==
    IF \E i \in 1..Len(cs) : cs[i] = sep
    THEN LET i == CHOOSE k \in 1..Len(cs) :
                      cs[k] = sep /\ \A j \in 1..(k - 1) : cs[j] # sep
         IN  <<SubSeq(cs, 1, i - 1)>> \o Split(SubSeq(cs, i + 1, Len(cs)), sep)
    ELSE <<cs>>

(***************************************************************************)
(* SQL text.                                                               *)
(***************************************************************************)
\* a literal piece of SQL text
Txt(str) == [k |-> "txt", text |-> str, n |-> 0]

\* `${x}` of a number inside a template string
Interp(x) ==
    IF x.t = "number" THEN [k |-> "num", text |-> "", n |-> x.n]
    ELSE [k |-> "num", text |-> "NaN", n |-> 0]

Has(sqlText, tok) == \E i \in 1..Len(sqlText) : sqlText[i] = tok

(***************************************************************************)
(* The builder.  A query is the record of the builder fields pagination    *)
(* reads: rowLimit (this.rowLimit), limit (this.options.limit) and         *)
(* offset (this.offset).                                                   *)
(***************************************************************************)
\* the limit applied when none is given
DefaultRowLimit == 10000

\* the major version assumed when the override has no usable major version
DefaultMajor == 12

\* the first major version with OFFSET/FETCH
OffsetFetchMajor == 12

\* getEnv('oracleVersion', { dataSource }): the override as the process
\* environment holds it at the time of the call
getEnv(environment) == environment

resolvedRowLimit(q) ==
    IF q.rowLimit.t # "undefined" THEN q.rowLimit ELSE q.limit

\* parseRowLimit with another default than the documented one
parseRowLimitWrongDefault(rawLimit) ==
    IF rawLimit = Null \/ rawLimit.t = "undefined"
    THEN Num(1000)
    ELSE LET parsed == IF rawLimit.t \in {"number", "NaN"}
                       THEN rawLimit
                       ELSE parseInt(rawLimit)
         IN  IF IsFinite(parsed) THEN parsed ELSE Num(1000)

parseRowLimit(rawLimit) ==
    IF rawLimit = Null \/ rawLimit.t = "undefined"
    THEN Num(DefaultRowLimit)
    ELSE LET parsed == IF rawLimit.t \in {"number", "NaN"}
                       THEN rawLimit
                       ELSE parseInt(rawLimit)
         IN  IF IsFinite(parsed) THEN parsed ELSE Num(DefaultRowLimit)

supportsOffsetFetch(environment) ==
    LET envVersion == getEnv(environment)
    IN  IF Truthy(envVersion)
        THEN LET split == Split(envVersion.s, ".")
                 parts == [i \in 1..Len(split) |-> parseInt(Str(split[i]))]
                 major == IF Truthy(parts[1]) THEN parts[1].n ELSE DefaultMajor
             IN  major >= OffsetFetchMajor
        ELSE TRUE

\* groupByDimensionLimit returning `${limitClause}${offsetClause}`
groupByDimensionLimitLimitFirst(q, environment) ==
    IF ~supportsOffsetFetch(environment)
    THEN <<>>
    ELSE LET rawRowLimit == resolvedRowLimit(q)
             limitClause ==
                 IF rawRowLimit = Null
                 THEN <<>>
                 ELSE <<Txt(" FETCH NEXT "), Interp(parseRowLimit(rawRowLimit)),
                        Txt(" ROWS ONLY")>>
             offsetClause ==
                 IF Truthy(q.offset)
                 THEN <<Txt(" OFFSET "), Interp(parseInt(q.offset)), Txt(" ROWS")>>
                 ELSE <<>>
         IN  limitClause \o offsetClause

groupByDimensionLimit(q, environment) ==
    IF ~supportsOffsetFetch(environment)
    THEN <<>>
    ELSE LET rawRowLimit == resolvedRowLimit(q)
             limitClause ==
                 IF rawRowLimit = Null
                 THEN <<>>
                 ELSE <<Txt(" FETCH NEXT "), Interp(parseRowLimit(rawRowLimit)),
                        Txt(" ROWS ONLY")>>
             offsetClause ==
                 IF Truthy(q.offset)
                 THEN <<Txt(" OFFSET "), Interp(parseInt(q.offset)), Txt(" ROWS")>>
                 ELSE <<>>
         IN  offsetClause \o limitClause

\* the three layers of the OFFSET + LIMIT form
NestedWrap(query, maxRow, offset) ==
    <<Txt("SELECT * FROM (\n  SELECT a.*, ROWNUM rnum FROM (\n")>>
    \o query
    \o <<Txt("\n  ) a WHERE ROWNUM <= "), Interp(maxRow),
         Txt("\n) WHERE rnum > "), Interp(offset)>>

\* the single layer of the LIMIT only form
SimpleWrap(query, limit) ==
    <<Txt("SELECT * FROM (")>> \o query \o <<Txt(") WHERE ROWNUM <= "), Interp(limit)>>

\* wrapQueryWithRownum without the `offset === 0` branch
wrapQueryWithRownumAlwaysNested(q, query) ==
    LET rawRowLimit == resolvedRowLimit(q)
    IN  IF rawRowLimit = Null /\ ~Truthy(q.offset)
        THEN query
        ELSE LET limit == parseRowLimit(rawRowLimit)
                 offset == IF Truthy(q.offset) THEN parseInt(q.offset) ELSE Num(0)
             IN  NestedWrap(query, Plus(offset, limit), offset)

\* wrapQueryWithRownum with the two bounds of the nested form exchanged
wrapQueryWithRownumBoundsSwapped(q, query) ==
    LET rawRowLimit == resolvedRowLimit(q)
    IN  IF rawRowLimit = Null /\ ~Truthy(q.offset)
        THEN query
        ELSE LET limit == parseRowLimit(rawRowLimit)
                 offset == IF Truthy(q.offset) THEN parseInt(q.offset) ELSE Num(0)
             IN  IF IsZero(offset)
                 THEN SimpleWrap(query, limit)
                 ELSE NestedWrap(query, offset, Plus(offset, limit))

\* wrapQueryWithRownum with `maxRow = limit`
wrapQueryWithRownumMaxRowIsLimit(q, query) ==
    LET rawRowLimit == resolvedRowLimit(q)
    IN  IF rawRowLimit = Null /\ ~Truthy(q.offset)
        THEN query
        ELSE LET limit == parseRowLimit(rawRowLimit)
                 offset == IF Truthy(q.offset) THEN parseInt(q.offset) ELSE Num(0)
             IN  IF IsZero(offset)
                 THEN SimpleWrap(query, limit)
                 ELSE NestedWrap(query, limit, offset)

wrapQueryWithRownum(q, query) ==
    LET rawRowLimit == resolvedRowLimit(q)
    IN  IF rawRowLimit = Null /\ ~Truthy(q.offset)
        THEN query
        ELSE LET limit == parseRowLimit(rawRowLimit)
                 offset == IF Truthy(q.offset) THEN parseInt(q.offset) ELSE Num(0)
             IN  IF IsZero(offset)
                 THEN SimpleWrap(query, limit)
                 ELSE LET maxRow == Plus(offset, limit)
                      IN  NestedWrap(query, maxRow, offset)

(***************************************************************************)
(* Parameters.  The parameter list of a builder is the sequence of the     *)
(* values allocated so far; a value is the sequence of the pieces of its   *)
(* text.  The placeholder of the i-th parameter is a token that carries i. *)
(***************************************************************************)
Placeholder(i) == [k |-> "param", text |-> "?", n |-> i]

\* paramAllocator.allocateParam(param): the list with param allocated
allocateParam(paramAllocator, param) == Append(paramAllocator, param)

\* the placeholder allocateParam returns
allocatedPlaceholder(paramAllocator) == Placeholder(Len(paramAllocator) + 1)

\* the '?' of a parameter template
QuestionMark == Txt("?")

\* the templates of the filter with `?` replaced by the placeholder of the
\* parameter number i
allocateParamsForQuestionString(questionString, i) ==
    [j \in 1..Len(questionString) |->
        IF questionString[j] = QuestionMark THEN Placeholder(i) ELSE questionString[j]]

dateTimeCast(value) ==
    <<Txt("CAST(TO_TIMESTAMP_TZ(:\""), value,
      Txt("\", 'YYYY-MM-DD\"T\"HH24:MI:SS.FF\"Z\"') AS DATE)")>>

timeStampCast(value) ==
    <<Txt("TO_TIMESTAMP_TZ(:\""), value,
      Txt("\", 'YYYY-MM-DD\"T\"HH24:MI:SS.FF\"Z\"')")>>

\* timeStampParam with the value named in the text in place of the `?`
timeStampParamInlinesValue(dateFieldType) ==
    IF dateFieldType = "string"
    THEN <<Txt(":\""), Txt("value"), Txt("\"")>>
    ELSE timeStampCast(Txt("value"))

\* timeStampParam(timeDimension); dateFieldType is
\* timeDimension.dateFieldType()
timeStampParam(dateFieldType) ==
    IF dateFieldType = "string"
    THEN <<Txt(":\""), QuestionMark, Txt("\"")>>
    ELSE timeStampCast(QuestionMark)

\* the two parameters a date range [start, end] registers
dateRangeParams(start, end) ==
    << <<start, "T00:00:00.000Z">>, <<end, "T23:59:59.999Z">> >>

\* the filter of a time dimension with a date range, on a builder that has
\* allocated the parameters of paramAllocator
timeRangeFilter(column, dateFieldType, paramAllocator) ==
    column \o <<Txt(" >= ")>>
        \o allocateParamsForQuestionString(timeStampParam(dateFieldType),
                                            Len(paramAllocator) + 1)
        \o <<Txt(" AND ")>> \o column \o <<Txt(" <= ")>>
        \o allocateParamsForQuestionString(timeStampParam(dateFieldType),
                                            Len(paramAllocator) + 2)

\* the date range of the query the pagination is studied on
UnpaginatedDateRange == [start |-> "2024-02-01", end |-> "2024-02-02"]

\* the parameters the query registers before any pagination
UnpaginatedParams ==
    dateRangeParams(UnpaginatedDateRange.start, UnpaginatedDateRange.end)

\* the SQL of the query before any pagination
UnpaginatedSql ==
    <<Txt("SELECT count(*) FROM visitors WHERE ")>>
        \o timeRangeFilter(<<Txt("visitors.created_at")>>, "time", <<>>)

\* BaseQuery.buildSqlAndParams: the unpaginated SQL followed by the
\* dialect's groupByDimensionLimit()
superBuildSqlAndParams(q, environment) ==
    UnpaginatedSql \o groupByDimensionLimit(q, environment)

\* the part of OracleQuery.buildSqlAndParams after the call of super
finishBuildSqlAndParams(q, environment, innerSql) ==
    LET rawRowLimit == resolvedRowLimit(q)
        needsRownumPagination ==
            ~supportsOffsetFetch(environment)
            /\ (rawRowLimit # Null \/ Truthy(q.offset))
    IN  IF needsRownumPagination THEN wrapQueryWithRownum(q, innerSql) ELSE innerSql

\* buildSqlAndParams when the environment reads envInner during the call of
\* super and envOuter after it
buildSqlAndParams(q, envInner, envOuter) ==
    finishBuildSqlAndParams(q, envOuter, superBuildSqlAndParams(q, envInner))

\* the parameters super.buildSqlAndParams returns: those the builder has
\* allocated once the query's own are registered
superBuildParams(paramAllocator) == paramAllocator \o UnpaginatedParams

\* buildSqlAndParams allocating the row limit as one more parameter, as
\* rowLimitSql of the earlier variant does for MAX_SOURCE_ROW_LIMIT
finishBuildParamsAllocatesLimit(innerParams) ==
    allocateParam(innerParams, <<"MAX_SOURCE_ROW_LIMIT">>)

\* the parameters OracleQuery.buildSqlAndParams returns, given those super
\* returned
finishBuildParams(innerParams) == innerParams

(***************************************************************************)
(* Inputs.                                                                 *)
(***************************************************************************)
\* values of CUBEJS_DB_ORACLE_VERSION; Undefined is the variable not set
Versions ==
    { Undefined, Str(<<>>),
      Str(<<"1", "1", ".", "2">>), Str(<<"1", "1", ".", "2", ".", "0", ".", "4">>),
      Str(<<"1", "2", ".", "1">>), Str(<<"1", "9", ".", "3">>),
      Str(<<"9">>), Str(<<"0", ".", "9">>),
      Str(<<"i", "n", "v", "a", "l", "i", "d">>) }

Numbers == { Num(i) : i \in 0..MaxNum }

NumericStrings == { Str(<<"0">>), Str(<<"2">>), Str(<<"1", "0">>) }

MalformedStrings == { Str(<<"a", "b", "c">>) }

RowLimits == {Undefined, Null, NaN} \cup Numbers \cup NumericStrings \cup MalformedStrings

OptionLimits == {Undefined, Null, Num(1), Str(<<"2">>)}

Offsets == {Undefined, NaN} \cup Numbers \cup NumericStrings \cup MalformedStrings

Queries == [rowLimit : RowLimits, limit : OptionLimits, offset : Offsets]

(***************************************************************************)
(* State.                                                                  *)
(***************************************************************************)
VARIABLES
    env,        \* process.env: the value of the version override
    query,      \* the fields of the builder
    pc,         \* "constructed", "super" (super.buildSqlAndParams returned), "done"
    innerSql,   \* the SQL returned by super.buildSqlAndParams
    sql,        \* the SQL returned by buildSqlAndParams
    envInner,   \* the override read by groupByDimensionLimit in this build
    fetchInner, \* what supportsOffsetFetch answered to groupByDimensionLimit
    fetchOuter, \* what supportsOffsetFetch answered to buildSqlAndParams
    paramAllocator, \* the parameters the builder has allocated
    params,     \* the parameters returned by buildSqlAndParams
    previous,   \* what an earlier builder of the same query returned, if any
    call,       \* the method of the builder invoked on its own, and its arguments
    out,        \* the text that method returned
    returned    \* whether that method has returned

vars == <<env, query, pc, innerSql, sql, envInner, fetchInner, fetchOuter,
          paramAllocator, params, previous, call, out, returned>>

\* the variables of a method invoked on its own
callVars == <<call, out, returned>>

\* no method invoked on its own
NoCall == [op |-> "none"]

\* a builder freshly constructed by new OracleQuery(compilers, options),
\* under any value of the override
Init ==
    /\ env \in Versions
    /\ query \in Queries
    /\ pc = "constructed"
    /\ innerSql = <<>>
    /\ sql = <<>>
    /\ envInner = Undefined
    /\ fetchInner = TRUE
    /\ fetchOuter = TRUE
    /\ paramAllocator = <<>>
    /\ params = <<>>
    /\ previous = <<>>
    /\ call = NoCall
    /\ out = <<>>
    /\ returned = FALSE

\* the process environment is assigned (process.env.CUBEJS_DB_ORACLE_VERSION
\* = v, or delete); nothing orders it with respect to a build
SetEnv(v) ==
    /\ v # env
    /\ env' = v
    /\ UNCHANGED <<query, pc, innerSql, sql, envInner, fetchInner, fetchOuter>>
    /\ UNCHANGED <<paramAllocator, params, previous>>
    /\ UNCHANGED callVars

\* buildSqlAndParams up to the return of super.buildSqlAndParams, which
\* calls groupByDimensionLimit.  The call of super runs the base builder and
\* the schema's own functions; the override lives in the process
\* environment, which that code and its callers may assign, so the build is
\* two steps with the environment free to change in between
SuperBuildSqlAndParams ==
    /\ pc = "constructed"
    /\ innerSql' = superBuildSqlAndParams(query, env)
    /\ envInner' = getEnv(env)
    /\ fetchInner' = supportsOffsetFetch(env)
    /\ paramAllocator' = superBuildParams(paramAllocator)
    /\ pc' = "super"
    /\ UNCHANGED <<env, query, sql, fetchOuter, params, previous>>
    /\ UNCHANGED callVars

\* the rest of buildSqlAndParams
FinishBuildSqlAndParams ==
    /\ pc = "super"
    /\ sql' = finishBuildSqlAndParams(query, env, innerSql)
    /\ fetchOuter' = supportsOffsetFetch(env)
    /\ params' = finishBuildParams(paramAllocator)
    /\ pc' = "done"
    /\ UNCHANGED <<env, query, innerSql, envInner, fetchInner>>
    /\ UNCHANGED <<paramAllocator, previous>>
    /\ UNCHANGED callVars

Next ==
    \/ \E v \in Versions : SetEnv(v)
    \/ SuperBuildSqlAndParams
    \/ FinishBuildSqlAndParams

Spec == Init /\ [][Next]_vars

(***************************************************************************)
(* Two builds of one query.  After the first builder has returned, a       *)
(* second builder is constructed for the same query and builds in its      *)
(* turn; the override keeps the value it had at the start.                 *)
(***************************************************************************)
\* a constructor handing the parameter list of the earlier builder on
newParamAllocatorShared(earlier) == earlier

\* the parameter list of a builder constructed after one that holds the
\* list `earlier`: a new, empty one
newParamAllocator(earlier) == <<>>

\* new OracleQuery(compilers, options) for the query just built; what the
\* first builder returned is kept by the caller
NewOracleQuery ==
    /\ pc = "done"
    /\ previous = <<>>
    /\ previous' = <<sql, params>>
    /\ pc' = "constructed"
    /\ innerSql' = <<>>
    /\ sql' = <<>>
    /\ envInner' = Undefined
    /\ fetchInner' = TRUE
    /\ fetchOuter' = TRUE
    /\ paramAllocator' = newParamAllocator(paramAllocator)
    /\ params' = <<>>
    /\ UNCHANGED <<env, query>>
    /\ UNCHANGED callVars

NextTwoBuilds ==
    \/ SuperBuildSqlAndParams
    \/ FinishBuildSqlAndParams
    \/ NewOracleQuery

SpecTwoBuilds == Init /\ [][NextTwoBuilds]_vars

(***************************************************************************)
(* The rows a paginated SQL text selects.  The unpaginated result is the   *)
(* sequence of its row ordinals 1..N.  `WHERE ROWNUM <= k` keeps the first *)
(* k rows of its input, `ROWNUM rnum` numbers the rows it keeps from 1,    *)
(* `WHERE rnum > o` drops the rows numbered up to o, `OFFSET n ROWS` skips *)
(* n rows and `FETCH NEXT m ROWS ONLY` keeps the next m.                   *)
(***************************************************************************)
Clamp(k, len) == IF k < 0 THEN 0 ELSE IF k > len THEN len ELSE k

FirstRows(rows, k) == SubSeq(rows, 1, Clamp(k, Len(rows)))

SkipRows(rows, k) == SubSeq(rows, Clamp(k, Len(rows)) + 1, Len(rows))

\* no NaN was interpolated into the text
ValidSql(s) == \A i \in 1..Len(s) : s[i].text # "NaN"

IsNestedWrap(s) ==
    /\ Len(s) >= 5
    /\ s[1] = Txt("SELECT * FROM (\n  SELECT a.*, ROWNUM rnum FROM (\n")
    /\ s[Len(s) - 3] = Txt("\n  ) a WHERE ROWNUM <= ")
    /\ s[Len(s) - 1] = Txt("\n) WHERE rnum > ")

IsSimpleWrap(s) ==
    /\ Len(s) >= 3
    /\ s[1] = Txt("SELECT * FROM (")
    /\ s[Len(s) - 1] = Txt(") WHERE ROWNUM <= ")

EndsWithFetch(s) ==
    /\ Len(s) >= 3
    /\ s[Len(s) - 2] = Txt(" FETCH NEXT ")
    /\ s[Len(s)] = Txt(" ROWS ONLY")

EndsWithOffset(s) ==
    /\ Len(s) >= 3
    /\ s[Len(s) - 2] = Txt(" OFFSET ")
    /\ s[Len(s)] = Txt(" ROWS")

RECURSIVE ResultRows(_, _)
\* the rows selected by the valid SQL text s over an unpaginated result of
\* N rows
ResultRows(s, N) ==
    CASE IsNestedWrap(s) ->
            SkipRows(FirstRows(ResultRows(SubSeq(s, 2, Len(s) - 4), N), s[Len(s) - 2].n),
                     s[Len(s)].n)
      [] IsSimpleWrap(s) ->
            FirstRows(ResultRows(SubSeq(s, 2, Len(s) - 2), N), s[Len(s)].n)
      [] EndsWithFetch(s) ->
            FirstRows(ResultRows(SubSeq(s, 1, Len(s) - 3), N), s[Len(s) - 1].n)
      [] EndsWithOffset(s) ->
            SkipRows(ResultRows(SubSeq(s, 1, Len(s) - 3), N), s[Len(s) - 1].n)
      [] OTHER -> [i \in 1..N |-> i]

\* the rows produced before the final filter: the rows of the middle layer
\* of the nested form; the simple form has only one filter, a stop key that
\* ends the scan of its input, and produces its result rows only
MaterializedRows(s, N) ==
    IF IsNestedWrap(s)
    THEN FirstRows(ResultRows(SubSeq(s, 2, Len(s) - 4), N), s[Len(s) - 2].n)
    ELSE ResultRows(s, N)

Range(f) == { f[i] : i \in DOMAIN f }

(***************************************************************************)
(* Vocabulary of the properties.                                           *)
(***************************************************************************)
Done == pc = "done"

\* the build ran under one strategy: both consultations of the capability
\* gave the same answer
UnderNativeClause == Done /\ fetchInner /\ fetchOuter

UnderWrapping == Done /\ ~fetchInner /\ ~fetchOuter

\* neither rowLimit nor limit is specified
LimitAbsent(q) == q.rowLimit = Undefined /\ q.limit = Undefined

\* x is a number or a string that starts with a decimal integer
IsNumeric(x) == x.t \in {"number", "string"} /\ parseInt(x).t = "number"

\* x is given but has no numeric value
IsMalformed(x) == x = NaN \/ (x.t = "string" /\ parseInt(x).t # "number")

\* the limit in force for a raw limit that is not null: its numeric value,
\* the default when it is absent or malformed
LimitInForce(raw) == IF IsNumeric(raw) THEN parseInt(raw).n ELSE DefaultRowLimit

\* x is an offset that is absent or has a numeric value
OffsetWellFormed(x) == x.t \in {"undefined", "null"} \/ IsNumeric(x)

\* the number of rows a well-formed offset skips
OffsetValue(x) == IF IsNumeric(x) THEN parseInt(x).n ELSE 0

FetchClause(m) == <<Txt(" FETCH NEXT "), Interp(Num(m)), Txt(" ROWS ONLY")>>

OffsetClause(n) == <<Txt(" OFFSET "), Interp(n), Txt(" ROWS")>>

\* sub occurs in s as a run of consecutive tokens
ContainsSeq(s, sub) ==
    \E i \in 0..(Len(s) - Len(sub)) : SubSeq(s, i + 1, i + Len(sub)) = sub

HasFetchNext(s) == Has(s, Txt(" FETCH NEXT "))

HasNativeClause(s) == HasFetchNext(s) \/ Has(s, Txt(" OFFSET "))

HasRownumBound(s) ==
    Has(s, Txt(") WHERE ROWNUM <= ")) \/ Has(s, Txt("\n  ) a WHERE ROWNUM <= "))

HasRownumWrap(s) ==
    \/ HasRownumBound(s)
    \/ Has(s, Txt("SELECT * FROM (\n  SELECT a.*, ROWNUM rnum FROM (\n"))
    \/ Has(s, Txt("SELECT * FROM ("))

\* the major version an override names, NaN when it names none
MajorVersion(v) ==
    IF v.t = "string" /\ v.s # <<>> THEN parseInt(Str(Split(v.s, ".")[1])) ELSE NaN

(***************************************************************************)
(* C1.  The strategy is a function of the override string: a major version *)
(* below 12 selects Wrapping, a major version of 12 or more selects        *)
(* NativeClause, and an absent, empty or unparsable override selects       *)
(* NativeClause.  The code answers NativeClause for major version 0.       *)
(***************************************************************************)
C1_VersionSelectsStrategy ==
    pc # "constructed" =>
        LET major == MajorVersion(envInner)
        IN  IF major.t = "number"
            THEN fetchInner = (major.n >= 12)
            ELSE fetchInner = TRUE

(***************************************************************************)
(* C2.  Within one buildSqlAndParams call the two consultations of the     *)
(* pagination capability give the same answer, also when the override      *)
(* changes between them.  The code reads the environment at each           *)
(* consultation.                                                           *)
(***************************************************************************)
C2_CapabilityStableWithinBuild == Done => fetchInner = fetchOuter

(***************************************************************************)
(* C3.  The SQL returned by buildSqlAndParams never carries both a native  *)
(* OFFSET/FETCH NEXT clause and a ROWNUM wrap, and carries exactly one of  *)
(* the two whenever a row bound applies (the resolved limit is not null).  *)
(***************************************************************************)
C3_StrategiesMutuallyExclusive ==
    Done =>
        /\ ~(HasNativeClause(sql) /\ HasRownumWrap(sql))
        /\ resolvedRowLimit(query) # Null => (HasFetchNext(sql) # HasRownumBound(sql))

C5_NullLimitMeansNoBound ==
    Done /\ resolvedRowLimit(query) = Null =>
        /\ ~HasFetchNext(sql)
        /\ ~HasRownumWrap(sql)
        /\ fetchInner = fetchOuter =>
              sql # buildSqlAndParams([query EXCEPT !.rowLimit = Undefined,
                                                    !.limit = Undefined],
                                      envInner, envInner)

(***************************************************************************)
(* C6.  Under Wrapping, when a limit L applies (the resolved limit is not  *)
(* null) and the offset is absent or 0, the result is exactly              *)
(* SELECT * FROM (<unpaginated SQL>) WHERE ROWNUM <= L, with no            *)
(* ordinal-alias layer.                                                    *)
(***************************************************************************)
C6_LimitOnlyWrapsOnce ==
    /\ UnderWrapping
    /\ resolvedRowLimit(query) # Null
    /\ OffsetWellFormed(query.offset)
    /\ OffsetValue(query.offset) = 0
    => /\ sql = <<Txt("SELECT * FROM (")>> \o UnpaginatedSql
                \o <<Txt(") WHERE ROWNUM <= "),
                     Interp(Num(LimitInForce(resolvedRowLimit(query))))>>
       /\ ~Has(sql, Txt("SELECT * FROM (\n  SELECT a.*, ROWNUM rnum FROM (\n"))

C6_Witness ==
    /\ UnderWrapping
    /\ query.rowLimit = Str(<<"1", "0">>)
    /\ query.offset = Str(<<"0">>)
    /\ IsSimpleWrap(sql)

(***************************************************************************)
(* C7.  Under Wrapping, with offset O > 0 and limit L, the result is the   *)
(* nested wrap: the middle layer filters ROWNUM <= O + L, the arithmetic   *)
(* sum also when O or L are numeric strings, and aliases the ordinal; the  *)
(* outer layer filters the alias > O.                                      *)
(***************************************************************************)
C7_OffsetLimitWrapsTwice ==
    /\ UnderWrapping
    /\ resolvedRowLimit(query) # Null
    /\ IsNumeric(query.offset)
    /\ OffsetValue(query.offset) > 0
    => LET O == OffsetValue(query.offset)
           L == LimitInForce(resolvedRowLimit(query))
       IN  sql = <<Txt("SELECT * FROM (\n  SELECT a.*, ROWNUM rnum FROM (\n")>>
                 \o UnpaginatedSql
                 \o <<Txt("\n  ) a WHERE ROWNUM <= "), Interp(Num(O + L)),
                      Txt("\n) WHERE rnum > "), Interp(Num(O))>>

C7_Witness ==
    /\ UnderWrapping
    /\ query.rowLimit = Str(<<"1", "0">>)
    /\ query.offset = Str(<<"2">>)
    /\ ContainsSeq(sql, <<Txt("\n  ) a WHERE ROWNUM <= "), Interp(Num(12))>>)

(***************************************************************************)
(* C8.  Under Wrapping with a non-negative offset O and limit L over an    *)
(* unpaginated result with ordinals 1..N, the rows returned are exactly    *)
(* those with ordinal in (O, O+L], hence at most L.  The claim that at     *)
(* most L rows are materialized before the final filter fails: the middle  *)
(* layer materializes the rows with ordinal up to O+L.                     *)
(***************************************************************************)
\* the case of C8: a build under Wrapping with numeric limit and offset
C8_Case ==
    /\ UnderWrapping
    /\ IsNumeric(resolvedRowLimit(query))
    /\ OffsetWellFormed(query.offset)
    /\ LimitInForce(resolvedRowLimit(query)) >= 0
    /\ OffsetValue(query.offset) >= 0

C8_ReturnedWindow(N) ==
    LET O == OffsetValue(query.offset)
        L == LimitInForce(resolvedRowLimit(query))
    IN  /\ Range(ResultRows(sql, N)) = { r \in 1..N : O < r /\ r <= O + L }
        /\ Len(ResultRows(sql, N)) <= L

\* the claim as stated: at most L rows are materialized
C8_AtMostLimitMaterialized ==
    C8_Case =>
        \A N \in 0..MaxRows :
            /\ Len(MaterializedRows(sql, N)) <= LimitInForce(resolvedRowLimit(query))
            /\ C8_ReturnedWindow(N)

\* the claim as amended: at most O + L rows are materialized
C8_AtMostOffsetPlusLimitMaterialized ==
    C8_Case =>
        \A N \in 0..MaxRows :
            /\ Len(MaterializedRows(sql, N))
                  <= OffsetValue(query.offset) + LimitInForce(resolvedRowLimit(query))
            /\ Range(MaterializedRows(sql, N))
                  = { r \in 1..N : r <= OffsetValue(query.offset)
                                         + LimitInForce(resolvedRowLimit(query)) }
            /\ C8_ReturnedWindow(N)

C8_Witness ==
    /\ C8_Case
    /\ IsNestedWrap(sql)
    /\ LimitInForce(resolvedRowLimit(query)) > 0
    /\ Len(MaterializedRows(sql, MaxRows)) > LimitInForce(resolvedRowLimit(query))
    /\ Len(ResultRows(sql, MaxRows)) = LimitInForce(resolvedRowLimit(query))

(***************************************************************************)
(* C9.  A non-numeric limit or offset is treated as absent: a non-numeric  *)
(* limit yields the SQL of the build with no limit specified, a            *)
(* non-numeric offset yields the SQL of the build with no offset, and no   *)
(* NaN appears in the SQL.  The code interpolates the NaN of a non-numeric *)
(* offset string.                                                          *)
(***************************************************************************)
C9_MalformedTreatedAsAbsent ==
    Done /\ fetchInner = fetchOuter =>
        /\ IsMalformed(resolvedRowLimit(query)) =>
              sql = buildSqlAndParams([query EXCEPT !.rowLimit = Undefined,
                                                    !.limit = Undefined],
                                      envInner, envInner)
        /\ IsMalformed(query.offset) =>
              /\ sql = buildSqlAndParams([query EXCEPT !.offset = Undefined],
                                         envInner, envInner)
              /\ ValidSql(sql)
              /\ ~IsNestedWrap(sql)

(***************************************************************************)
(* C10.  Under NativeClause buildSqlAndParams returns the unpaginated SQL  *)
(* followed by ' OFFSET <n> ROWS' and then ' FETCH NEXT <m> ROWS ONLY',    *)
(* in that order and without any wrap; the FETCH clause is present exactly *)
(* when the limit is not explicitly null.  The claim that the OFFSET       *)
(* clause is present only when the offset is non-zero fails for the        *)
(* string "0"; the clause is present exactly when the offset is truthy.    *)
(***************************************************************************)
\* the text of a build under NativeClause with the given clauses
C10_NativeShape(offsetPart, fetchPart) ==
    /\ sql = UnpaginatedSql \o offsetPart \o fetchPart
    /\ sql = innerSql
    /\ ~HasRownumWrap(sql)
    /\ fetchPart # <<>> <=> resolvedRowLimit(query) # Null

C10_Parts(P(_, _)) ==
    \E offsetPart \in {<<>>, OffsetClause(parseInt(query.offset))} :
        \E fetchPart \in {<<>>, FetchClause(parseRowLimit(resolvedRowLimit(query)).n)} :
            /\ C10_NativeShape(offsetPart, fetchPart)
            /\ P(offsetPart, fetchPart)

\* the claim as stated: the OFFSET clause only for a non-zero offset
C10_OffsetClauseOnlyWhenNonZero ==
    UnderNativeClause =>
        LET P(offsetPart, fetchPart) ==
                offsetPart # <<>> => ~IsZero(parseInt(query.offset))
        IN  C10_Parts(P)

\* the claim as amended: the OFFSET clause exactly for a truthy offset
C10_OffsetClauseWhenTruthy ==
    UnderNativeClause =>
        LET P(offsetPart, fetchPart) ==
                offsetPart # <<>> <=> Truthy(query.offset)
        IN  C10_Parts(P)

C10_Witness ==
    /\ UnderNativeClause
    /\ query.offset = Str(<<"0">>)
    /\ ContainsSeq(sql, OffsetClause(Num(0)) \o <<Txt(" FETCH NEXT ")>>)

(***************************************************************************)
(* Interval arithmetic: addInterval and subtractInterval.  An interval     *)
(* text is the sequence of its "<integer> <unit>" terms, each the          *)
(* characters of its integer and its unit word; a date expression is SQL   *)
(* text.                                                                   *)
(***************************************************************************)
\* interval texts have at most MaxTerms terms
MaxTerms == 3

\* the units an interval text may name
IntervalUnits ==
    {"year", "quarter", "month", "week", "day", "hour", "minute", "second"}

\* parseSqlInterval(interval) of @cubejs-backend/shared: the magnitude of
\* every unit the text mentions, parsed as an integer, and undefined for a
\* unit it does not mention
parseSqlInterval(interval) ==
    [u \in IntervalUnits |->
        IF \E i \in 1..Len(interval) : interval[i].unit = u
        THEN LET i == CHOOSE k \in 1..Len(interval) :
                          /\ interval[k].unit = u
                          /\ \A j \in (k + 1)..Len(interval) : interval[j].unit # u
             IN  ParseIntChars(interval[i].value)
        ELSE Undefined]

\* `${n}` of an integer: a minus sign for a negative one, then its digits
InterpSigned(n) ==
    IF n < 0 THEN <<Txt("-"), Interp(Num(0 - n))>> ELSE <<Interp(Num(n))>>

\* totalMonths with a quarter taken for four months
totalMonthsQuarterOfFour(intervalParsed) ==
      (IF Truthy(intervalParsed["year"]) THEN intervalParsed["year"].n * 12 ELSE 0)
    + (IF Truthy(intervalParsed["quarter"]) THEN intervalParsed["quarter"].n * 4 ELSE 0)
    + (IF Truthy(intervalParsed["month"]) THEN intervalParsed["month"].n ELSE 0)

\* the local totalMonths of addInterval and of subtractInterval once the
\* three calendar units are added up
totalMonths(intervalParsed) ==
      (IF Truthy(intervalParsed["year"]) THEN intervalParsed["year"].n * 12 ELSE 0)
    + (IF Truthy(intervalParsed["quarter"]) THEN intervalParsed["quarter"].n * 3 ELSE 0)
    + (IF Truthy(intervalParsed["month"]) THEN intervalParsed["month"].n ELSE 0)

\* one `if (intervalParsed.<unit>) res = ...` of the day and time part;
\* operator is " + " in addInterval and " - " in subtractInterval
durationTerm(res, intervalParsed, unit, operator, keyword) ==
    IF Truthy(intervalParsed[unit])
    THEN res \o <<Txt(operator), Txt("NUMTODSINTERVAL(")>>
             \o InterpSigned(intervalParsed[unit].n)
             \o <<Txt(keyword)>>
    ELSE res

\* the day and time part with the hour tested before the day
durationTermsHourFirst(res, intervalParsed, operator) ==
    LET h == durationTerm(res, intervalParsed, "hour", operator, ", 'HOUR')")
        d == durationTerm(h, intervalParsed, "day", operator, ", 'DAY')")
        m == durationTerm(d, intervalParsed, "minute", operator, ", 'MINUTE')")
    IN  durationTerm(m, intervalParsed, "second", operator, ", 'SECOND')")

\* the day and time part of addInterval and of subtractInterval: the four
\* tests in the order of the source
durationTerms(res, intervalParsed, operator) ==
    LET d == durationTerm(res, intervalParsed, "day", operator, ", 'DAY')")
        h == durationTerm(d, intervalParsed, "hour", operator, ", 'HOUR')")
        m == durationTerm(h, intervalParsed, "minute", operator, ", 'MINUTE')")
    IN  durationTerm(m, intervalParsed, "second", operator, ", 'SECOND')")

\* addInterval without the test of totalMonths against 0
addIntervalAlwaysAddMonths(date, interval) ==
    LET intervalParsed == parseSqlInterval(interval)
        months == totalMonths(intervalParsed)
        res == <<Txt("ADD_MONTHS(")>> \o date \o <<Txt(", ")>>
                   \o InterpSigned(months) \o <<Txt(")")>>
    IN  durationTerms(res, intervalParsed, " + ")

addInterval(date, interval) ==
    LET intervalParsed == parseSqlInterval(interval)
        months == totalMonths(intervalParsed)
        res == IF months # 0
               THEN <<Txt("ADD_MONTHS(")>> \o date \o <<Txt(", ")>>
                        \o InterpSigned(months) \o <<Txt(")")>>
               ELSE date
    IN  durationTerms(res, intervalParsed, " + ")

\* subtractInterval that writes the date expression a second time, in
\* front of the day and time part
subtractIntervalRepeatsDate(date, interval) ==
    LET intervalParsed == parseSqlInterval(interval)
        months == totalMonths(intervalParsed)
        res == IF months # 0
               THEN <<Txt("ADD_MONTHS(")>> \o date \o <<Txt(", "), Txt("-")>>
                        \o InterpSigned(months) \o <<Txt(")")>>
               ELSE date
    IN  IF \E u \in {"day", "hour", "minute", "second"} : Truthy(intervalParsed[u])
        THEN res \o durationTerms(date, intervalParsed, " - ")
        ELSE res

\* the minus sign of `-${totalMonths}` is a piece of the template, written
\* whatever the sign of totalMonths
subtractInterval(date, interval) ==
    LET intervalParsed == parseSqlInterval(interval)
        months == totalMonths(intervalParsed)
        res == IF months # 0
               THEN <<Txt("ADD_MONTHS(")>> \o date \o <<Txt(", "), Txt("-")>>
                        \o InterpSigned(months) \o <<Txt(")")>>
               ELSE date
    IN  durationTerms(res, intervalParsed, " - ")

\* the integers written in interval texts: a negative one, zero and a
\* positive one
MagnitudeTexts == { <<"-", "3">>, <<"0">>, <<"1">> }

IntervalTerms == [value : MagnitudeTexts, unit : IntervalUnits]

\* the interval texts: at most MaxTerms terms, no unit named twice
IntervalTexts ==
    { t \in UNION { [1..k -> IntervalTerms] : k \in 0..MaxTerms } :
        \A i, j \in 1..Len(t) : t[i].unit = t[j].unit => i = j }

\* the date expressions: a column and an expression over a column
DateExprs ==
    { <<Txt("my_date")>>, <<Txt("TRUNC("), Txt("my_date"), Txt(")")>> }

IntervalCalls ==
    [op : {"addInterval", "subtractInterval"}, date : DateExprs,
     interval : IntervalTexts]

(***************************************************************************)
(* Truncation to a granularity.  A granularity is a string value whose one *)
(* element is the whole word.                                              *)
(***************************************************************************)
GRANULARITY_VALUE ==
    [day |-> "DD", week |-> "IW", hour |-> "HH24", minute |-> "mm",
     second |-> "ss", month |-> "MM", year |-> "YYYY"]

\* obj[key] of an object of strings: undefined when obj has no such key
Lookup(obj, key) ==
    IF key \in DOMAIN obj THEN Str(<<obj[key]>>) ELSE Undefined

\* `${x}` of a word, of undefined or of null inside a template string
InterpWord(x) ==
    IF x.t = "string" THEN Txt(x.s[1]) ELSE Txt(x.t)

\* timeGroupedColumn without the test of the granularity
timeGroupedColumnAlwaysTruncates(granularity, dimension) ==
    <<Txt("TRUNC(")>> \o dimension
        \o <<Txt(", '"),
             InterpWord(IF granularity.t = "string" /\ granularity.s # <<>>
                        THEN Lookup(GRANULARITY_VALUE, granularity.s[1])
                        ELSE Undefined),
             Txt("')")>>

timeGroupedColumn(granularity, dimension) ==
    IF ~Truthy(granularity)
    THEN dimension
    ELSE <<Txt("TRUNC(")>> \o dimension
             \o <<Txt(", '"),
                  InterpWord(Lookup(GRANULARITY_VALUE, granularity.s[1])),
                  Txt("')")>>

convertTz(field) == field

(***************************************************************************)
(* Grouping.  An item of the projection is the record of what the          *)
(* grouping reads of it: dimension (item.dimension, undefined on a         *)
(* measure), time (whether it is a time dimension), granularity and sql    *)
(* (the SQL of its column).                                                *)
(***************************************************************************)
\* item.selectColumns(): the columns the item projects; a time dimension
\* without granularity projects none and answers null
selectColumns(item) ==
    IF item.time /\ ~Truthy(item.granularity)
    THEN Null
    ELSE Obj(<<item.sql>>)

\* item.dimensionSql(): the column of a dimension, the column truncated to
\* its granularity for a time dimension
dimensionSql(item) ==
    IF item.time
    THEN timeGroupedColumn(item.granularity, convertTz(item.sql))
    ELSE item.sql

RECURSIVE Join(_, _)
\* Array.prototype.join(separator) over pieces of SQL text
Join(pieces, separator) ==
    IF pieces = <<>> THEN <<>>
    ELSE IF Len(pieces) = 1 THEN pieces[1]
    ELSE pieces[1] \o <<Txt(separator)>> \o Join(Tail(pieces), separator)

\* groupByClause as the earlier variant has it: every item with a
\* dimension is grouped by, whether or not it projects a column
groupByClauseEarlierVariant(forSelect) ==
    LET dimensions == SelectSeq(forSelect, LAMBDA item : Truthy(item.dimension))
    IN  IF Len(dimensions) = 0
        THEN <<>>
        ELSE <<Txt(" GROUP BY ")>>
                 \o Join([i \in 1..Len(dimensions) |-> dimensionSql(dimensions[i])], ", ")

\* groupByClause grouping by the index of the projected column, as the
\* base builder does
groupByClauseByIndex(forSelect) ==
    LET dimensions == SelectSeq(forSelect, LAMBDA item :
                             Truthy(item.dimension) /\ Truthy(selectColumns(item)))
    IN  IF Len(dimensions) = 0
        THEN <<>>
        ELSE <<Txt(" GROUP BY ")>>
                 \o Join([i \in 1..Len(dimensions) |-> <<Interp(Num(i))>>], ", ")

\* groupByClause; forSelect is the list this.forSelect() returns
groupByClause(forSelect) ==
    LET dimensions == SelectSeq(forSelect, LAMBDA item :
                             Truthy(item.dimension) /\ Truthy(selectColumns(item)))
    IN  IF Len(dimensions) = 0
        THEN <<>>
        ELSE <<Txt(" GROUP BY ")>>
                 \o Join([i \in 1..Len(dimensions) |-> dimensionSql(dimensions[i])], ", ")

(***************************************************************************)
(* Aliases of derived tables.                                              *)
(***************************************************************************)
\* asSyntaxTable answering the keyword of the base builder
asSyntaxTableOfBase == "AS"

asSyntaxTable == ""

asSyntaxJoin == asSyntaxTable

\* the alias of the i-th derived table
SubqueryAlias(i) == <<Txt("q_"), Interp(Num(i))>>

\* a derived table given the alias after the one that is its own
AliasedSubquerySkipsAlias(i) ==
    <<Txt("("), Txt("subquery"), Txt(") "), Txt(asSyntaxJoin), Txt(" ")>>
        \o SubqueryAlias(i + 1)

\* one derived table with its alias: `(${subquery}) ${this.asSyntaxJoin} q_${i}`
AliasedSubquery(i) ==
    <<Txt("("), Txt("subquery"), Txt(") "), Txt(asSyntaxJoin), Txt(" ")>>
        \o SubqueryAlias(i)

RECURSIVE JoinedSubqueries(_, _, _)
\* the derived tables i .. count - 1, each joined to the one before it on
\* the grouping dimensions, or listed after a comma when there is none
JoinedSubqueries(i, count, grouped) ==
    IF i >= count THEN <<>>
    ELSE (IF grouped
          THEN <<Txt(" INNER JOIN ")>> \o AliasedSubquery(i) \o <<Txt(" ON ")>>
                   \o SubqueryAlias(i - 1) \o <<Txt(".dim = ")>>
                   \o SubqueryAlias(i) \o <<Txt(".dim")>>
          ELSE <<Txt(" , ")>> \o AliasedSubquery(i))
         \o JoinedSubqueries(i + 1, count, grouped)

\* the FROM clause the rolling-window planner emits for count derived
\* tables, in the order of declaration of their measures
rollingWindowFrom(count, grouped) ==
    <<Txt(" FROM ")>> \o AliasedSubquery(0) \o JoinedSubqueries(1, count, grouped)

(***************************************************************************)
(* The methods of the dialect invoked on their own: one call on a builder, *)
(* its arguments drawn when the builder is constructed.                    *)
(***************************************************************************)
\* the projection has at most MaxItems items
MaxItems == 3
\* at most MaxSubqueries derived tables in one FROM clause
MaxSubqueries == 3

\* the granularities of the query language
GranularityEnum ==
    {"second", "minute", "hour", "day", "week", "month", "quarter", "year"}

\* the granularity argument: absent, or one of the enumeration
Granularities ==
    {Undefined, Null, Str(<<>>)} \cup { Str(<<g>>) : g \in GranularityEnum }

TimeGroupedColumnCalls ==
    [op : {"timeGroupedColumn"}, granularity : Granularities, dimension : DateExprs]

\* the items of a projection: two dimensions, a time dimension without and
\* with a granularity, a measure
Items ==
    { [dimension |-> Str(<<"visitors.source">>), time |-> FALSE,
       granularity |-> Undefined, sql |-> <<Txt("visitors.source")>>],
      [dimension |-> Str(<<"visitors.id">>), time |-> FALSE,
       granularity |-> Undefined, sql |-> <<Txt("visitors.id")>>],
      [dimension |-> Undefined, time |-> FALSE,
       granularity |-> Undefined, sql |-> <<Txt("count(visitors.id)")>>] }
    \cup
    { [dimension |-> Str(<<"visitors.createdAt">>), time |-> TRUE,
       granularity |-> g, sql |-> <<Txt("visitors.created_at")>>] :
        g \in {Undefined, Str(<<"day">>), Str(<<"month">>)} }

GroupByClauseCalls ==
    [op : {"groupByClause"},
     forSelect : UNION { [1..k -> Items] : k \in 0..MaxItems }]

RollingWindowCalls ==
    [op : {"rollingWindowFrom"}, count : 1..MaxSubqueries, grouped : BOOLEAN]

(***************************************************************************)
(* OracleFilter.likeIgnoreCase.  `not` is the truthiness of the argument;  *)
(* allocated is the parameter list of the builder at the call.             *)
(***************************************************************************)
\* likeIgnoreCase with the wildcards of `starts` and `ends` exchanged
likeIgnoreCaseSwapsEnds(column, not, param, type, allocated) ==
    LET p == IF ~Truthy(type) \/ type = Str(<<"contains">>) \/ type = Str(<<"starts">>)
             THEN <<Txt("'%' || ")>> ELSE <<>>
        s == IF ~Truthy(type) \/ type = Str(<<"contains">>) \/ type = Str(<<"ends">>)
             THEN <<Txt(" || '%'")>> ELSE <<>>
    IN  column \o (IF not THEN <<Txt(" NOT")>> ELSE <<>>) \o <<Txt(" LIKE ")>>
            \o p \o <<allocatedPlaceholder(allocated)>> \o s

likeIgnoreCase(column, not, param, type, allocated) ==
    LET p == IF ~Truthy(type) \/ type = Str(<<"contains">>) \/ type = Str(<<"ends">>)
             THEN <<Txt("'%' || ")>> ELSE <<>>
        s == IF ~Truthy(type) \/ type = Str(<<"contains">>) \/ type = Str(<<"starts">>)
             THEN <<Txt(" || '%'")>> ELSE <<>>
    IN  column \o (IF not THEN <<Txt(" NOT")>> ELSE <<>>) \o <<Txt(" LIKE ")>>
            \o p \o <<allocatedPlaceholder(allocated)>> \o s

\* the match type of a filter: absent, or one of the operators' types
MatchTypes ==
    {Undefined, Null, Str(<<>>)}
        \cup { Str(<<t>>) : t \in {"contains", "starts", "ends", "exact"} }

\* the parameter lists a builder may hold when a filter is rendered on it
AllocatedBefore == { <<>>, << <<"2024-02-01", "T00:00:00.000Z">> >> }

LikeIgnoreCaseCalls ==
    [op : {"likeIgnoreCase"},
     column : { <<Txt("visitors.source")>>,
                <<Txt("LOWER("), Txt("visitors.source"), Txt(")")>> },
     not : BOOLEAN,
     param : { <<"google">> },
     type : MatchTypes,
     allocated : AllocatedBefore]

\* a time dimension with a date range [start, end], over a column of type
\* time or string
TimeRangeFilterCalls ==
    [op : {"timeRangeFilter"},
     column : { <<Txt("visitors.created_at")>> },
     dateFieldType : {"time", "string"},
     start : {"2024-02-01"},
     end : {"2024-02-02", "2024-12-31"},
     allocated : AllocatedBefore]

(***************************************************************************)
(* preAggregationTableName.  A name is the sequence of its characters, so  *)
(* that name.length is Len(name); a thrown error is the text that starts   *)
(* with the token Throw(<class>) and goes on with the message.             *)
(***************************************************************************)
Chr(c) == [k |-> "chr", text |-> c, n |-> 0]

Throw(class) == [k |-> "throw", text |-> class, n |-> 0]

\* a name of n characters
NameOf(c, n) == [i \in 1..n |-> Chr(c)]

\* the schema the pre-aggregation tables are created in
PreAggregationsSchema == NameOf("s", 20)

\* super.preAggregationTableName(cube, preAggregationName, skipSchema)
superPreAggregationTableName(cube, preAggregationName, skipSchema) ==
    (IF skipSchema THEN <<>> ELSE PreAggregationsSchema \o <<Chr(".")>>)
        \o cube \o <<Chr("_")>> \o preAggregationName

\* the length above which preAggregationTableName throws
NameLengthLimit == 128

\* the length the message of the error reports
NameLengthReported == 64

\* preAggregationTableName comparing the length with >=
preAggregationTableNameRejectsAtLimit(cube, preAggregationName, skipSchema) ==
    LET name == superPreAggregationTableName(cube, preAggregationName, skipSchema)
    IN  IF Len(name) >= NameLengthLimit
        THEN <<Throw("UserError"),
               Txt("Oracle can not work with table names that longer than "),
               Interp(Num(NameLengthReported)),
               Txt(" symbols. Consider using the 'sqlAlias' attribute in your cube and in your pre-aggregation definition for ")>>
                 \o name \o <<Txt(".")>>
        ELSE name

preAggregationTableName(cube, preAggregationName, skipSchema) ==
    LET name == superPreAggregationTableName(cube, preAggregationName, skipSchema)
    IN  IF Len(name) > NameLengthLimit
        THEN <<Throw("UserError"),
               Txt("Oracle can not work with table names that longer than "),
               Interp(Num(NameLengthReported)),
               Txt(" symbols. Consider using the 'sqlAlias' attribute in your cube and in your pre-aggregation definition for ")>>
                 \o name \o <<Txt(".")>>
        ELSE name

\* the lengths of the pre-aggregation names: with the 8 characters of the
\* cube and the separator, names of 10, 64, 65, 128, 129 and 130 characters
\* without the schema
PreAggregationNameLengths == {1, 55, 56, 119, 120, 121}

PreAggregationTableNameCalls ==
    [op : {"preAggregationTableName"},
     cube : { NameOf("v", 8) },
     preAggregationName : { NameOf("r", n) : n \in PreAggregationNameLengths },
     skipSchema : BOOLEAN]

(***************************************************************************)
(* The earlier variant of the pagination (the second copy of the class):   *)
(* buildParamAnnotatedSql wraps the annotated SQL of the base builder, and *)
(* the base builder's buildSqlAndParams turns the annotated SQL into the   *)
(* text and the parameter list.  A null string is the empty text.          *)
(***************************************************************************)
MAX_SOURCE_ROW_LIMIT == Num(200000)

\* the value rowLimitSql binds for MAX_SOURCE_ROW_LIMIT
MaxSourceRowLimitParam == <<"200000">>

\* rowLimitSql(): the limit expression, or null
rowLimitSql(rowLimit, allocated) ==
    IF rowLimit = Undefined \/ rowLimit = Null
    THEN <<>>
    ELSE IF rowLimit = MAX_SOURCE_ROW_LIMIT
         THEN <<allocatedPlaceholder(allocated)>>
         ELSE LET numeric == parseInt(rowLimit)
              IN  IF numeric.t # "number" THEN <<>> ELSE <<Interp(numeric)>>

\* the parameter list after rowLimitSql()
rowLimitSqlParams(rowLimit, allocated) ==
    IF rowLimit = MAX_SOURCE_ROW_LIMIT
    THEN allocateParam(allocated, MaxSourceRowLimitParam)
    ELSE allocated

\* offsetValue(): the offset as a number, or null
offsetValue(offset) ==
    IF offset = Undefined \/ offset = Null
    THEN Null
    ELSE LET parsed == parseInt(offset)
         IN  IF parsed.t # "number" THEN Null ELSE parsed

\* escapeColumnName('row_num__')
RowNumAlias == Txt("\"row_num__\"")

applyRowNumberPagination(rowLimit, offset, allocated, sqlText) ==
    LET limitExpression == rowLimitSql(rowLimit, allocated)
        offsetVal == offsetValue(offset)
    IN  IF limitExpression = <<>> /\ (offsetVal = Null \/ offsetVal.n <= 0)
        THEN sqlText
        ELSE
        LET wrappedLimit == IF limitExpression # <<>>
                            THEN <<Txt("(")>> \o limitExpression \o <<Txt(")")>>
                            ELSE <<>>
            offsetNumber == IF offsetVal # Null /\ offsetVal.n > 0 THEN offsetVal ELSE Num(0)
        IN  IF offsetNumber.n = 0 /\ wrappedLimit # <<>>
            THEN <<Txt("SELECT * FROM (")>> \o sqlText
                     \o <<Txt(") pagination_q WHERE ROWNUM <= ")>> \o wrappedLimit
            ELSE
            LET upperBoundExpr ==
                    IF wrappedLimit # <<>>
                    THEN IF offsetNumber.n > 0
                         THEN <<Interp(offsetNumber), Txt(" + ")>> \o wrappedLimit
                         ELSE wrappedLimit
                    ELSE <<>>
                innerWhere == IF upperBoundExpr # <<>>
                              THEN <<Txt(" WHERE ROWNUM <= ")>> \o upperBoundExpr
                              ELSE <<>>
                conditions ==
                    (IF offsetNumber.n > 0
                     THEN << <<RowNumAlias, Txt(" > "), Interp(offsetNumber)>> >>
                     ELSE <<>>)
                    \o (IF upperBoundExpr # <<>>
                        THEN << <<RowNumAlias, Txt(" <= ")>> \o upperBoundExpr >>
                        ELSE <<>>)
                outerWhere == IF Len(conditions) > 0
                              THEN <<Txt(" WHERE ")>> \o Join(conditions, " AND ")
                              ELSE <<>>
            IN  <<Txt("SELECT * FROM (SELECT inner_q.*, ROWNUM "), RowNumAlias,
                  Txt(" FROM (")>> \o sqlText \o <<Txt(") inner_q")>> \o innerWhere
                    \o <<Txt(") outer_q")>> \o outerWhere

\* buildParamAnnotatedSql(): the annotated SQL of the base builder, which
\* has registered the parameters of the query, wrapped
buildParamAnnotatedSql(rowLimit, offset, allocated) ==
    applyRowNumberPagination(rowLimit, offset, superBuildParams(allocated),
                             UnpaginatedSql)

\* the places of the placeholders of an annotated SQL, in the order of the
\* text
AnnotatedPlaces(annotated) ==
    LET places == { i \in 1..Len(annotated) : annotated[i].k = "param" }
    IN  [k \in 1..Cardinality(places) |->
            CHOOSE i \in places : Cardinality({ j \in places : j <= i }) = k]

\* ParamAllocator.buildSqlAndParams, the parameters: one per placeholder of
\* the annotated SQL, in the order of the text
annotatedParams(annotated, allocated) ==
    LET places == AnnotatedPlaces(annotated)
    IN  [k \in 1..Len(places) |-> allocated[annotated[places[k]].n]]

\* ParamAllocator.buildSqlAndParams, the text: the k-th placeholder stands
\* for the k-th parameter
annotatedSql(annotated) ==
    LET places == AnnotatedPlaces(annotated)
    IN  [i \in 1..Len(annotated) |->
            IF annotated[i].k = "param"
            THEN Placeholder(CHOOSE k \in 1..Len(places) : places[k] = i)
            ELSE annotated[i]]

\* the limits and offsets of the builds of the earlier variant
EarlierRowLimits ==
    {Undefined, Null, Num(0), Num(2), Str(<<"1", "0">>), MAX_SOURCE_ROW_LIMIT}
        \cup MalformedStrings

EarlierOffsets ==
    {Undefined, Null, Num(0), Num(1), Str(<<"2">>)} \cup MalformedStrings

BuildParamAnnotatedSqlCalls ==
    [op : {"buildParamAnnotatedSql"}, rowLimit : EarlierRowLimits,
     offset : EarlierOffsets]

\* builds of the current variant, each under one value of the override
BuildVersions == { Undefined, Str(<<"1", "1", ".", "2">>), Str(<<"1", "9", ".", "3">>) }

BuildSqlAndParamsCalls ==
    [op : {"buildSqlAndParams"}, version : BuildVersions,
     rowLimit : EarlierRowLimits, offset : EarlierOffsets]

Calls ==
    IntervalCalls \cup TimeGroupedColumnCalls \cup GroupByClauseCalls
        \cup RollingWindowCalls \cup LikeIgnoreCaseCalls
        \cup TimeRangeFilterCalls \cup PreAggregationTableNameCalls
        \cup BuildParamAnnotatedSqlCalls \cup BuildSqlAndParamsCalls

\* the builder the methods are invoked on: one with a limit and an offset
MethodQueries ==
    { [rowLimit |-> Num(2), limit |-> Undefined, offset |-> Num(1)] }

\* the fields of the builder that the pagination reads or writes, and the
\* process environment
paginationVars ==
    <<env, query, pc, innerSql, sql, envInner, fetchInner, fetchOuter>>

\* the fields of the builder and the process environment
builderVars == <<paginationVars, paramAllocator, params>>

MethodInit ==
    /\ env = Undefined
    /\ query \in MethodQueries
    /\ pc = "constructed"
    /\ innerSql = <<>>
    /\ sql = <<>>
    /\ envInner = Undefined
    /\ fetchInner = TRUE
    /\ fetchOuter = TRUE
    /\ call \in Calls
    /\ paramAllocator = (IF "allocated" \in DOMAIN call THEN call.allocated ELSE <<>>)
    /\ params = <<>>
    /\ previous = <<>>
    /\ out = <<>>
    /\ returned = FALSE

AddInterval ==
    /\ ~returned
    /\ call.op = "addInterval"
    /\ out' = addInterval(call.date, call.interval)
    /\ returned' = TRUE
    /\ UNCHANGED <<call, builderVars, previous>>

SubtractInterval ==
    /\ ~returned
    /\ call.op = "subtractInterval"
    /\ out' = subtractInterval(call.date, call.interval)
    /\ returned' = TRUE
    /\ UNCHANGED <<call, builderVars, previous>>

TimeGroupedColumn ==
    /\ ~returned
    /\ call.op = "timeGroupedColumn"
    /\ out' = timeGroupedColumn(call.granularity, call.dimension)
    /\ returned' = TRUE
    /\ UNCHANGED <<call, builderVars, previous>>

GroupByClause ==
    /\ ~returned
    /\ call.op = "groupByClause"
    /\ out' = groupByClause(call.forSelect)
    /\ returned' = TRUE
    /\ UNCHANGED <<call, builderVars, previous>>

RollingWindowFrom ==
    /\ ~returned
    /\ call.op = "rollingWindowFrom"
    /\ out' = rollingWindowFrom(call.count, call.grouped)
    /\ returned' = TRUE
    /\ UNCHANGED <<call, builderVars, previous>>

LikeIgnoreCase ==
    /\ ~returned
    /\ call.op = "likeIgnoreCase"
    /\ out' = likeIgnoreCase(call.column, call.not, call.param, call.type,
                              paramAllocator)
    /\ paramAllocator' = allocateParam(paramAllocator, call.param)
    /\ returned' = TRUE
    /\ UNCHANGED <<call, paginationVars, params, previous>>

\* the filter of a time dimension with a date range is rendered
TimeRangeFilter ==
    /\ ~returned
    /\ call.op = "timeRangeFilter"
    /\ out' = timeRangeFilter(call.column, call.dateFieldType, paramAllocator)
    /\ paramAllocator' = paramAllocator \o dateRangeParams(call.start, call.end)
    /\ returned' = TRUE
    /\ UNCHANGED <<call, paginationVars, params, previous>>

\* preAggregationTableName returns the name or throws
PreAggregationTableName ==
    /\ ~returned
    /\ call.op = "preAggregationTableName"
    /\ out' = preAggregationTableName(call.cube, call.preAggregationName,
                                       call.skipSchema)
    /\ returned' = TRUE
    /\ UNCHANGED <<call, builderVars, previous>>

\* buildSqlAndParams of the earlier variant: the base builder calls
\* buildParamAnnotatedSql and turns what it returns into text and parameters
BuildParamAnnotatedSql ==
    /\ ~returned
    /\ call.op = "buildParamAnnotatedSql"
    /\ LET annotated == buildParamAnnotatedSql(call.rowLimit, call.offset,
                                                paramAllocator)
           allocated == rowLimitSqlParams(call.rowLimit,
                                          superBuildParams(paramAllocator))
       IN  /\ out' = annotatedSql(annotated)
           /\ paramAllocator' = allocated
           /\ params' = annotatedParams(annotated, allocated)
    /\ returned' = TRUE
    /\ UNCHANGED <<call, paginationVars, previous>>

\* buildSqlAndParams of the current variant, run to its end on a builder of
\* the limit and offset of the call while the override is call.version
BuildSqlAndParams ==
    /\ ~returned
    /\ call.op = "buildSqlAndParams"
    /\ LET q == [rowLimit |-> call.rowLimit, limit |-> Undefined,
                 offset |-> call.offset]
       IN  out' = buildSqlAndParams(q, call.version, call.version)
    /\ paramAllocator' = superBuildParams(paramAllocator)
    /\ params' = finishBuildParams(superBuildParams(paramAllocator))
    /\ returned' = TRUE
    /\ UNCHANGED <<call, paginationVars, previous>>

MethodNext ==
    \/ BuildSqlAndParams
    \/ BuildParamAnnotatedSql
    \/ PreAggregationTableName
    \/ LikeIgnoreCase
    \/ TimeRangeFilter
    \/ AddInterval
    \/ SubtractInterval
    \/ TimeGroupedColumn
    \/ GroupByClause
    \/ RollingWindowFrom

SpecMethods == MethodInit /\ [][MethodNext]_vars

\* the method op has returned
Returned(op) == returned /\ call.op = op

(***************************************************************************)
(* Vocabulary of the claims on interval arithmetic.                        *)
(***************************************************************************)
\* the number of tokens of sqlText equal to tok
CountToken(sqlText, tok) == Cardinality({ i \in 1..Len(sqlText) : sqlText[i] = tok })

\* the number of places where sub occurs in sqlText
CountSeq(sqlText, sub) ==
    Cardinality({ i \in 1..(Len(sqlText) - Len(sub) + 1) :
                    SubSeq(sqlText, i, i + Len(sub) - 1) = sub })

\* the magnitude the interval text gives a unit, 0 when it gives none
Magnitude(interval, unit) ==
    LET v == parseSqlInterval(interval)[unit]
    IN  IF v.t = "number" THEN v.n ELSE 0

\* year * 12 + quarter * 3 + month of an interval text
CalendarMagnitude(interval) ==
    Magnitude(interval, "year") * 12 + Magnitude(interval, "quarter") * 3
        + Magnitude(interval, "month")

\* the text of the integer literal m
IntegerLiteral(m) ==
    IF m < 0 THEN <<Txt("-"), Interp(Num(0 - m))>> ELSE <<Interp(Num(m))>>

\* the call ADD_MONTHS(<date>, <m>)
AddMonthsCall(date, m) ==
    <<Txt("ADD_MONTHS(")>> \o date \o <<Txt(", ")>> \o IntegerLiteral(m) \o <<Txt(")")>>

IsPrefix(p, s) == Len(p) <= Len(s) /\ SubSeq(s, 1, Len(p)) = p

\* C11: addInterval folds the calendar units of the interval into the one
\* magnitude year * 12 + quarter * 3 + month; when that magnitude is not 0
\* its result starts with the one call ADD_MONTHS(<date>, <magnitude>), when
\* it is 0 the result has no ADD_MONTHS call, and it never has two.
C11_AddIntervalFoldsCalendarUnits ==
    Returned("addInterval") =>
        LET m == CalendarMagnitude(call.interval)
        IN  /\ CountToken(out, Txt("ADD_MONTHS(")) = (IF m # 0 THEN 1 ELSE 0)
            /\ m # 0 => IsPrefix(AddMonthsCall(call.date, m), out)

\* addInterval has folded a year, a quarter and a month into one call
C11_Witness ==
    /\ Returned("addInterval")
    /\ \A u \in {"year", "quarter", "month"} : Magnitude(call.interval, u) # 0
    /\ CalendarMagnitude(call.interval) # 0
    /\ CountToken(out, Txt("ADD_MONTHS(")) = 1

IsSuffix(p, s) == Len(p) <= Len(s) /\ SubSeq(s, Len(s) - Len(p) + 1, Len(s)) = p

\* the duration units in the order of emission, with their SQL keywords
DurationUnits == <<"day", "hour", "minute", "second">>

DurationKeywords == <<", 'DAY')", ", 'HOUR')", ", 'MINUTE')", ", 'SECOND')">>

\* the term of the k-th duration unit: nothing when the interval gives it
\* no magnitude
ExpectedTerm(interval, k, operator) ==
    IF Magnitude(interval, DurationUnits[k]) # 0
    THEN <<Txt(operator), Txt("NUMTODSINTERVAL(")>>
             \o IntegerLiteral(Magnitude(interval, DurationUnits[k]))
             \o <<Txt(DurationKeywords[k])>>
    ELSE <<>>

\* the terms of the duration units, day first and second last
ExpectedTerms(interval, operator) ==
    ExpectedTerm(interval, 1, operator) \o ExpectedTerm(interval, 2, operator)
        \o ExpectedTerm(interval, 3, operator) \o ExpectedTerm(interval, 4, operator)

\* sqlText is base followed by the duration terms of the interval, chained
\* with operator
ChainsDurationTerms(sqlText, date, interval, operator) ==
    LET terms == ExpectedTerms(interval, operator)
        base == SubSeq(sqlText, 1, Len(sqlText) - Len(terms))
    IN  /\ IsSuffix(terms, sqlText)
        /\ CountToken(sqlText, Txt("NUMTODSINTERVAL(")) =
               Cardinality({ k \in 1..4 : Magnitude(interval, DurationUnits[k]) # 0 })
        /\ IF CalendarMagnitude(interval) # 0
           THEN /\ Head(base) = Txt("ADD_MONTHS(")
                /\ base[Len(base)] = Txt(")")
                /\ CountToken(base, Txt("ADD_MONTHS(")) = 1
           ELSE base = date

\* C12: the result of addInterval and of subtractInterval is a base followed
\* by one NUMTODSINTERVAL term for each duration unit the interval gives a
\* magnitude, in the order day, hour, minute, second whatever the order of
\* the text, every term chained with + by addInterval and with - by
\* subtractInterval; the base is the ADD_MONTHS call when the interval has a
\* calendar magnitude and the date expression otherwise.
C12_DurationTermsInFixedOrder ==
    /\ Returned("addInterval") =>
           /\ ChainsDurationTerms(out, call.date, call.interval, " + ")
           /\ ~Has(out, Txt(" - "))
    /\ Returned("subtractInterval") =>
           /\ ChainsDurationTerms(out, call.date, call.interval, " - ")
           /\ ~Has(out, Txt(" + "))

\* subtractInterval has returned for a text that names the hour before the
\* day and has a calendar unit
C12_Witness ==
    /\ Returned("subtractInterval")
    /\ Len(call.interval) = 3
    /\ call.interval[1].unit = "hour"
    /\ call.interval[2].unit = "day"
    /\ Magnitude(call.interval, "hour") # 0
    /\ Magnitude(call.interval, "day") # 0
    /\ CalendarMagnitude(call.interval) # 0
    /\ CountToken(out, Txt("NUMTODSINTERVAL(")) = 2

\* sqlText with every " + " that chains a term turned into " - "
Subtracted(sqlText) ==
    [i \in 1..Len(sqlText) |-> IF sqlText[i] = Txt(" + ") THEN Txt(" - ") ELSE sqlText[i]]

\* the result added of addInterval(date, interval) with the sign of every
\* magnitude flipped: the calendar magnitude m negated, every duration term
\* subtracted
SignsFlipped(added, date, m) ==
    IF m # 0
    THEN AddMonthsCall(date, 0 - m)
             \o Subtracted(SubSeq(added, Len(AddMonthsCall(date, m)) + 1, Len(added)))
    ELSE Subtracted(added)

\* C13: for every date expression x and interval i, subtractInterval(x, i)
\* is addInterval(x, i) with the calendar magnitude negated and every
\* duration term subtracted instead of added.
C13_SubtractIsAddWithSignsFlipped ==
    Returned("subtractInterval") =>
        out = SignsFlipped(addInterval(call.date, call.interval), call.date,
                           CalendarMagnitude(call.interval))

\* the same, for the intervals whose calendar magnitude is not negative
C13_HoldsForNonNegativeCalendarMagnitude ==
    Returned("subtractInterval") /\ CalendarMagnitude(call.interval) >= 0 =>
        out = SignsFlipped(addInterval(call.date, call.interval), call.date,
                           CalendarMagnitude(call.interval))

\* date is the innermost operand of sqlText: it is the text itself, the
\* left operand of the first term, or the first argument of the ADD_MONTHS
\* call the text starts with
InnermostOperand(sqlText, date) ==
    \/ IsPrefix(date, sqlText)
          /\ (Len(sqlText) > Len(date) => sqlText[Len(date) + 1] \in {Txt(" + "), Txt(" - ")})
    \/ IsPrefix(<<Txt("ADD_MONTHS(")>> \o date \o <<Txt(", ")>>, sqlText)

\* C14: addInterval and subtractInterval are text transforms over an opaque
\* date expression: the step in which one of them returns leaves every field
\* of the builder and the environment as they were, and the text returned
\* contains the date expression of the call verbatim, exactly once, as the
\* innermost operand.
C14_IntervalMethodsArePureText ==
    [][(~returned /\ returned' /\ call.op \in {"addInterval", "subtractInterval"})
          => /\ UNCHANGED builderVars
             /\ call' = call
             /\ CountSeq(out', call.date) = 1
             /\ InnermostOperand(out', call.date)]_vars

\* subtractInterval has returned, on a builder with a limit and an offset,
\* a text with an ADD_MONTHS call and a term around a composite date
\* expression
C14_Witness ==
    /\ Returned("subtractInterval")
    /\ query.offset = Num(1)
    /\ Len(call.date) > 1
    /\ Has(out, Txt("ADD_MONTHS("))
    /\ Has(out, Txt("NUMTODSINTERVAL("))
    /\ CountSeq(out, call.date) = 1

\* C15: an interval text that is empty or gives every unit the magnitude 0
\* makes addInterval and subtractInterval return the date expression as it
\* is; and when year, quarter and month cancel to a combined magnitude of 0
\* the result has no ADD_MONTHS call and starts with the date expression.
C15_ZeroIntervalIsNoOp ==
    (Returned("addInterval") \/ Returned("subtractInterval")) =>
        /\ (\A u \in IntervalUnits : Magnitude(call.interval, u) = 0) => out = call.date
        /\ CalendarMagnitude(call.interval) = 0 =>
               /\ ~Has(out, Txt("ADD_MONTHS("))
               /\ IsPrefix(call.date, out)

\* addInterval has returned for a year, a quarter and a month that are not
\* 0 and cancel
C15_Witness ==
    /\ Returned("addInterval")
    /\ \A u \in {"year", "quarter", "month"} : Magnitude(call.interval, u) # 0
    /\ CalendarMagnitude(call.interval) = 0
    /\ out = call.date

(***************************************************************************)
(* Vocabulary of the claims on truncation and grouping.                    *)
(***************************************************************************)
\* the granularity argument is absent
GranularityAbsent(g) == g \in {Undefined, Null, Str(<<>>)}

\* the call TRUNC(<expr>, '<token>')
TruncCall(expr, token) ==
    <<Txt("TRUNC(")>> \o expr \o <<Txt(", '"), Txt(token), Txt("')")>>

\* the truncation tokens the dialect documents
DocumentedTokens ==
    [second |-> "ss", minute |-> "mm", hour |-> "HH24", day |-> "DD",
     month |-> "MM", year |-> "YYYY"]

\* C16: timeGroupedColumn(g, expr) is TRUNC(expr, '<token>') with the token
\* ss, mm, HH24, DD, MM, YYYY for g = second, minute, hour, day, month,
\* year, and is expr itself when g is absent.
C16_TruncatesWithDocumentedToken ==
    Returned("timeGroupedColumn") =>
        /\ GranularityAbsent(call.granularity) => out = call.dimension
        /\ \A g \in DOMAIN DocumentedTokens :
               call.granularity = Str(<<g>>) =>
                   out = TruncCall(call.dimension, DocumentedTokens[g])

\* timeGroupedColumn has truncated a composite expression to the hour
C16_Witness ==
    /\ Returned("timeGroupedColumn")
    /\ call.granularity = Str(<<"hour">>)
    /\ Len(call.dimension) > 1
    /\ out = TruncCall(call.dimension, "HH24")

\* the token a TRUNC call of timeGroupedColumn carries
TokenOf(sqlText) == sqlText[Len(sqlText) - 1].text

\* C17: for every granularity of the enumeration second, minute, hour, day,
\* week, month, quarter, year, timeGroupedColumn emits a TRUNC call whose
\* token is one the dialect defines, never an undefined one.
C17_EveryGranularityHasToken ==
    Returned("timeGroupedColumn") =>
        \A g \in GranularityEnum :
            call.granularity = Str(<<g>>) =>
                /\ Head(out) = Txt("TRUNC(")
                /\ TokenOf(out) # "undefined"
                /\ \E k \in DOMAIN GRANULARITY_VALUE : TokenOf(out) = GRANULARITY_VALUE[k]

RECURSIVE SplitAt(_, _)
\* the pieces of sqlText between the tokens equal to separator
SplitAt(sqlText, separator) ==
    IF \E i \in 1..Len(sqlText) : sqlText[i] = separator
    THEN LET i == CHOOSE k \in 1..Len(sqlText) :
                      sqlText[k] = separator /\ \A j \in 1..(k - 1) : sqlText[j] # separator
         IN  <<SubSeq(sqlText, 1, i - 1)>>
                 \o SplitAt(SubSeq(sqlText, i + 1, Len(sqlText)), separator)
    ELSE <<sqlText>>

\* the entries of a GROUP BY clause, in order; none for the empty clause
GroupByEntries(clause) ==
    IF clause = <<>> THEN <<>> ELSE SplitAt(Tail(clause), Txt(", "))

\* the number of items of the list that satisfy P
CountItems(items, P(_)) == Cardinality({ i \in 1..Len(items) : P(items[i]) })

\* the number of entries of the list equal to entry
CountEntries(entries, entry) == Cardinality({ i \in 1..Len(entries) : entries[i] = entry })

SelectableDimension(item) ==
    /\ item.dimension # Undefined
    /\ ~(item.time /\ GranularityAbsent(item.granularity))

\* the full SQL expression of a selectable dimension
FullExpression(item) ==
    IF item.time
    THEN TruncCall(item.sql, DocumentedTokens[item.granularity.s[1]])
    ELSE item.sql

RECURSIVE ExpectedEntries(_)
\* the expressions of the selectable dimensions of a projection, in the
\* order of the projection
ExpectedEntries(items) ==
    IF items = <<>> THEN <<>>
    ELSE (IF SelectableDimension(Head(items)) THEN <<FullExpression(Head(items))>> ELSE <<>>)
             \o ExpectedEntries(Tail(items))

\* C19: groupByClause returns ' GROUP BY ' followed by the full SQL
\* expressions, never the ordinal positions, of exactly the projected items
\* that are dimensions with a selectable column, in the order of the
\* projection and separated by ', '; it returns the empty string when there
\* is no such item.
C19_GroupByFullExpressions ==
    Returned("groupByClause") =>
        LET expected == ExpectedEntries(call.forSelect)
        IN  IF expected = <<>>
            THEN out = <<>>
            ELSE /\ Head(out) = Txt(" GROUP BY ")
                 /\ GroupByEntries(out) = expected
                 /\ \A i \in 1..Len(out) : out[i].k # "num"

\* groupByClause has returned two entries, a dimension after a truncated
\* time dimension, for a projection that also has a measure
C19_Witness ==
    /\ Returned("groupByClause")
    /\ Len(call.forSelect) = 3
    /\ call.forSelect[1].time
    /\ call.forSelect[2].dimension = Undefined
    /\ ~call.forSelect[3].time
    /\ Len(GroupByEntries(out)) = 2
    /\ GroupByEntries(out)[2] = call.forSelect[3].sql

(***************************************************************************)
(* Vocabulary of the claims on aliases.                                    *)
(***************************************************************************)
\* the places of sqlText where a derived table is given its alias: the
\* alias comes after the closing parenthesis of the table, keyword and blanks
\* aside
AliasPlaces(sqlText) ==
    { i \in 1..Len(sqlText) :
        /\ sqlText[i] = Txt("q_")
        /\ \E j \in 1..(i - 1) :
               /\ sqlText[j] = Txt(") ")
               /\ \A k \in (j + 1)..(i - 1) : sqlText[k].text \in {"", " ", "AS"} }

\* the last token before place i that is neither empty nor a blank
WordBefore(sqlText, i) ==
    LET j == CHOOSE k \in 1..(i - 1) :
                 /\ sqlText[k].text \notin {"", " "}
                 /\ \A l \in (k + 1)..(i - 1) : sqlText[l].text \in {"", " "}
    IN  sqlText[j]

\* C20: the keyword for a table alias and the keyword for a join alias are
\* both the empty string and equal, so in the FROM clause of derived tables
\* every alias q_N follows the closing parenthesis of its table with no AS in
\* between, and every derived table has its alias.
C20_NoAsBeforeDerivedTableAlias ==
    Returned("rollingWindowFrom") =>
        /\ asSyntaxTable = ""
        /\ asSyntaxJoin = asSyntaxTable
        /\ Cardinality(AliasPlaces(out)) = call.count
        /\ \A i \in AliasPlaces(out) : WordBefore(out, i) = Txt(") ")
        /\ ~Has(out, Txt("AS"))

\* the FROM clause of two or more derived tables, joined on a dimension,
\* has been emitted with the aliases q_0 and q_1
C20_Witness ==
    /\ Returned("rollingWindowFrom")
    /\ call.count >= 2
    /\ call.grouped
    /\ ContainsSeq(out, <<Txt(") "), Txt(""), Txt(" ")>> \o SubqueryAlias(1))
    /\ ContainsSeq(out, <<Txt(") "), Txt(""), Txt(" ")>> \o SubqueryAlias(0))

(***************************************************************************)
(* Claims on signed magnitudes and on the units of an interval.            *)
(***************************************************************************)
\* C27: for an interval whose combined month magnitude m is negative,
\* addInterval emits one ADD_MONTHS call whose second argument is the
\* integer literal m, and subtractInterval emits one whose second argument
\* is the integer literal -m, a positive number.
C27_SignedCalendarMagnitude ==
    LET m == CalendarMagnitude(call.interval)
    IN  /\ (Returned("addInterval") /\ m < 0) =>
               /\ CountToken(out, Txt("ADD_MONTHS(")) = 1
               /\ IsPrefix(AddMonthsCall(call.date, m), out)
        /\ (Returned("subtractInterval") /\ m < 0) =>
               /\ CountToken(out, Txt("ADD_MONTHS(")) = 1
               /\ IsPrefix(AddMonthsCall(call.date, 0 - m), out)

\* the same, for addInterval alone
C27_HoldsForAddInterval ==
    (Returned("addInterval") /\ CalendarMagnitude(call.interval) < 0) =>
        /\ CountToken(out, Txt("ADD_MONTHS(")) = 1
        /\ IsPrefix(AddMonthsCall(call.date, CalendarMagnitude(call.interval)), out)

\* the interval changes nothing: its calendar magnitude is 0 and it gives
\* no other unit a magnitude
NoOpInterval(interval) ==
    /\ CalendarMagnitude(interval) = 0
    /\ \A u \in {"week", "day", "hour", "minute", "second"} : Magnitude(interval, u) = 0

\* C29: no unit of the parsed interval is dropped: the result of addInterval
\* and of subtractInterval is the date expression itself only when the
\* interval is a no-op.
C29_NoUnitDropped ==
    (Returned("addInterval") \/ Returned("subtractInterval")) =>
        (out = call.date => NoOpInterval(call.interval))

\* the same, for the intervals that give the week no magnitude
C29_HoldsWithoutWeek ==
    ((Returned("addInterval") \/ Returned("subtractInterval"))
        /\ Magnitude(call.interval, "week") = 0) =>
        (out = call.date => NoOpInterval(call.interval))

(***************************************************************************)
(* Claims on the equivalence of the two pagination strategies.             *)
(***************************************************************************)
\* the upper bound on the number of rows a paginated SQL text applies, -1
\* when it applies none
RowBound(s) ==
    IF IsNestedWrap(s) THEN s[Len(s) - 2].n - s[Len(s)].n
    ELSE IF IsSimpleWrap(s) THEN s[Len(s)].n
    ELSE IF EndsWithFetch(s) THEN s[Len(s) - 1].n
    ELSE 0 - 1

\* the limit is numeric, unspecified or null and the offset is absent or a
\* positive number
C28_Inputs(q) ==
    /\ LET raw == resolvedRowLimit(q)
       IN  IsNumeric(raw) \/ raw = Undefined \/ raw = Null
    /\ q.offset = Undefined \/ (IsNumeric(q.offset) /\ parseInt(q.offset).n > 0)

\* the SQL the same builder returns under NativeClause
NativeSql(q) == buildSqlAndParams(q, Undefined, Undefined)

\* C28: for a numeric, unspecified or null limit, with or without a positive
\* offset, the SQL built under Wrapping selects the same rows of the
\* unpaginated result as the SQL built under NativeClause, whatever the
\* number of rows, and both apply the same upper bound or both apply none.
C28_StrategiesSelectSameWindow ==
    (UnderWrapping /\ C28_Inputs(query)) =>
        /\ \A N \in 0..MaxRows : ResultRows(sql, N) = ResultRows(NativeSql(query), N)
        /\ RowBound(sql) = RowBound(NativeSql(query))

\* the same, a null limit with an offset aside
C28_HoldsUnlessNullLimitWithOffset ==
    (UnderWrapping /\ C28_Inputs(query)
        /\ ~(resolvedRowLimit(query) = Null /\ Truthy(query.offset))) =>
        /\ \A N \in 0..MaxRows : ResultRows(sql, N) = ResultRows(NativeSql(query), N)
        /\ RowBound(sql) = RowBound(NativeSql(query))

(***************************************************************************)
(* Claims on the alias counter.                                            *)
(***************************************************************************)
\* the number the alias at place i of sqlText carries
AliasNumber(sqlText, i) == sqlText[i + 1].n

PlaceholderPlaces(sqlText) ==
    { i \in 1..Len(sqlText) : sqlText[i].k = "param" }

\* the text likeIgnoreCase is to return for a match type with or without
\* the two wildcards
LikeText(column, negated, leading, trailing, placeholder) ==
    column \o (IF negated THEN <<Txt(" NOT")>> ELSE <<>>) \o <<Txt(" LIKE ")>>
        \o (IF leading THEN <<Txt("'%' || ")>> ELSE <<>>)
        \o <<placeholder>>
        \o (IF trailing THEN <<Txt(" || '%'")>> ELSE <<>>)

\* the match requires a wildcard before / after the parameter
LeadingWildcard(type) ==
    type \in {Undefined, Null, Str(<<>>), Str(<<"contains">>), Str(<<"ends">>)}

TrailingWildcard(type) ==
    type \in {Undefined, Null, Str(<<>>), Str(<<"contains">>), Str(<<"starts">>)}

\* C22: likeIgnoreCase returns <column>[ NOT] LIKE ['%' || ]<placeholder>[ ||
\* '%'], a case-sensitive LIKE with no LOWER or UPPER of its own: NOT is
\* there exactly when the filter is negated; `contains` and an absent type
\* have both wildcards, `starts` the trailing one only, `ends` the leading
\* one only, an exact match none; the call allocates exactly one parameter,
\* the one its only placeholder stands for
C22_LikeIgnoreCaseShape ==
    Returned("likeIgnoreCase") =>
        /\ out = LikeText(call.column, call.not, LeadingWildcard(call.type),
                          TrailingWildcard(call.type),
                          Placeholder(Len(call.allocated) + 1))
        /\ paramAllocator = Append(call.allocated, call.param)
        /\ Cardinality(PlaceholderPlaces(out)) = 1

C22_Witness ==
    /\ Returned("likeIgnoreCase")
    /\ call.type = Str(<<"starts">>)
    /\ call.not
    /\ call.allocated # <<>>
    /\ out[Len(out)] = Txt(" || '%'")
    /\ ~Has(out, Txt("'%' || "))
    /\ Len(paramAllocator) = 2
\* the places of sqlText where the token tok stands
PlacesOf(sqlText, tok) == { i \in 1..Len(sqlText) : sqlText[i] = tok }

\* the numbers of the parameters whose placeholders stand in sqlText after
\* place from and before place to
ParamsBetween(sqlText, from, to) ==
    { sqlText[i].n : i \in { j \in PlaceholderPlaces(sqlText) : from < j /\ j < to } }

\* C24: the filter of a time dimension with the date range [start, end]
\* registers exactly two parameters, start then end, with the values
\* start + "T00:00:00.000Z" and end + "T23:59:59.999Z"; its text compares the
\* column with >= against the placeholder of the first and with <= against
\* the placeholder of the second
C24_DateRangeRegistersTwoParams ==
    Returned("timeRangeFilter") =>
        LET base == Len(call.allocated)
            ge == PlacesOf(out, Txt(" >= "))
            le == PlacesOf(out, Txt(" <= "))
        IN  /\ Len(paramAllocator) = base + 2
            /\ SubSeq(paramAllocator, 1, base) = call.allocated
            /\ paramAllocator[base + 1] = <<call.start, "T00:00:00.000Z">>
            /\ paramAllocator[base + 2] = <<call.end, "T23:59:59.999Z">>
            /\ Cardinality(PlaceholderPlaces(out)) = 2
            /\ Cardinality(ge) = 1 /\ Cardinality(le) = 1
            /\ \A g \in ge, l \in le :
                   /\ g < l
                   /\ SubSeq(out, g - Len(call.column), g - 1) = call.column
                   /\ SubSeq(out, l - Len(call.column), l - 1) = call.column
                   /\ ParamsBetween(out, g, l) = {base + 1}
                   /\ ParamsBetween(out, l, Len(out) + 1) = {base + 2}

C24_Witness ==
    /\ Returned("timeRangeFilter")
    /\ call.dateFieldType = "time"
    /\ call.allocated = <<>>
    /\ paramAllocator = << <<"2024-02-01", "T00:00:00.000Z">>,
                           <<"2024-12-31", "T23:59:59.999Z">> >>
    /\ ContainsSeq(out, <<Txt(" >= ")>> \o timeStampCast(Placeholder(1)))
    /\ ContainsSeq(out, <<Txt(" <= ")>> \o timeStampCast(Placeholder(2)))
\* the name preAggregationTableName generates for the call
GeneratedName ==
    superPreAggregationTableName(call.cube, call.preAggregationName, call.skipSchema)

\* preAggregationTableName threw an error of the class
Threw(class) ==
    /\ Returned("preAggregationTableName")
    /\ out # <<>>
    /\ out[1] = Throw(class)

\* the thrown message suggests the sqlAlias attribute
SuggestsSqlAlias ==
    Has(out, Txt(" symbols. Consider using the 'sqlAlias' attribute in your cube and in your pre-aggregation definition for "))

\* C23: preAggregationTableName throws a UserError whose message carries the
\* generated name and suggests sqlAlias exactly when the generated name is
\* longer than the limit of the dialect, and returns the generated name
\* unchanged otherwise
C23_TooLongNameThrowsUserError ==
    Returned("preAggregationTableName") =>
        IF Len(GeneratedName) > NameLengthLimit
        THEN /\ Threw("UserError")
             /\ SuggestsSqlAlias
             /\ IsSuffix(GeneratedName \o <<Txt(".")>>, out)
        ELSE out = GeneratedName

C23_Witness ==
    /\ Threw("UserError")
    /\ Len(GeneratedName) = NameLengthLimit + 1
    /\ call.skipSchema
    /\ ContainsSeq(out, GeneratedName)

\* the length the thrown message reports as the most a name may have
ReportedLength == out[3].n

\* C30: the limit is one value: a name is rejected exactly when it is
\* longer than the length the message of the error reports, and a thrown
\* message reports the length above which names are rejected
C30_OneLengthLimit ==
    Returned("preAggregationTableName") =>
        /\ Threw("UserError") <=> Len(GeneratedName) > NameLengthReported
        /\ Threw("UserError") => ReportedLength = NameLengthLimit

\* C30 holds for what it says of the names the message declares acceptable:
\* every name of at most the reported length is returned
C30_HoldsForShortNames ==
    Returned("preAggregationTableName") =>
        (Len(GeneratedName) <= NameLengthReported => out = GeneratedName)
\* the numbers of the parameters the placeholders of sqlText stand for, in
\* the order of the text
PlaceholderNumbers(sqlText) ==
    LET places == PlaceholderPlaces(sqlText)
    IN  [k \in 1..Cardinality(places) |->
            LET i == CHOOSE i \in places :
                        Cardinality({ j \in places : j <= i }) = k
            IN  sqlText[i].n]

\* sqlText without the text of the unpaginated query, which it holds
AddedText(sqlText) ==
    LET i == CHOOSE i \in 0..(Len(sqlText) - Len(UnpaginatedSql)) :
                 SubSeq(sqlText, i + 1, i + Len(UnpaginatedSql)) = UnpaginatedSql
    IN  SubSeq(sqlText, 1, i) \o SubSeq(sqlText, i + Len(UnpaginatedSql) + 1, Len(sqlText))

\* the text and the parameters a build returned bind in order, and the
\* text holds the unpaginated query
BindsInOrder ==
    /\ PlaceholderNumbers(out) = [k \in 1..Len(params) |-> k]
    /\ ContainsSeq(out, UnpaginatedSql)

\* the number of placeholders of the text the pagination added
AddedPlaceholders == Cardinality(PlaceholderPlaces(AddedText(out)))

\* C25: in what a build returns, of the current variant and of the earlier
\* one, the i-th placeholder of the text stands for the i-th element of
\* params, params is the list the unpaginated build produced, and the text
\* the pagination adds around the unpaginated query holds no placeholder
C25_PaginationAddsNoPlaceholder ==
    (Returned("buildSqlAndParams") \/ Returned("buildParamAnnotatedSql")) =>
        /\ BindsInOrder
        /\ params = UnpaginatedParams
        /\ AddedPlaceholders = 0

\* C25, amended: the placeholders bind in order in both variants; the
\* current variant adds no placeholder and returns the parameters of the
\* unpaginated build; the earlier variant does so too unless the row limit
\* is MAX_SOURCE_ROW_LIMIT, which it binds as a parameter: then the text it
\* adds holds one placeholder of the limit (two with an offset, in the two
\* bounds), after those of the query, and params ends with the limit once
\* for each
C25_PlaceholdersBindInOrder ==
    /\ Returned("buildSqlAndParams") =>
           /\ BindsInOrder
           /\ params = UnpaginatedParams
           /\ params = paramAllocator
           /\ AddedPlaceholders = 0
    /\ Returned("buildParamAnnotatedSql") =>
           /\ BindsInOrder
           /\ params = UnpaginatedParams
                  \o [k \in 1..AddedPlaceholders |-> MaxSourceRowLimitParam]
           /\ AddedPlaceholders =
                  (IF call.rowLimit # MAX_SOURCE_ROW_LIMIT THEN 0
                   ELSE IF offsetValue(call.offset).n > 0 THEN 2 ELSE 1)

C25_Witness ==
    /\ Returned("buildParamAnnotatedSql")
    /\ call.rowLimit = MAX_SOURCE_ROW_LIMIT
    /\ call.offset = Num(1)
    /\ Len(params) = 4
    /\ PlaceholderNumbers(out) = <<1, 2, 3, 4>>

C25_WitnessCurrentVariant ==
    /\ Returned("buildSqlAndParams")
    /\ IsNestedWrap(out)
    /\ Len(params) = 2
    /\ PlaceholderNumbers(out) = <<1, 2>>
    /\ AddedText(out) # <<>>
\* the second of two builders of one query has returned
SecondBuildDone == pc = "done" /\ previous # <<>>

====
